---- MODULE Spec2Model ----
(***************************************************************************)
(* Token service of src/server.js: POST /token (rate limiter, username     *)
(* validation, createToken) and GET /secure-data (authenticate, protected  *)
(* handler).  The three middleware libraries are modelled by what the      *)
(* calls in server.js make them do:                                        *)
(*   express-rate-limit  in-memory store, one entry {totalHits, resetTime} *)
(*                       per key (req.ip); every request increments        *)
(*                       totalHits, a request is refused when              *)
(*                       totalHits > max; the entry is reset when          *)
(*                       resetTime <= Date.now().                          *)
(*   express-validator   trim() rewrites req.body.username, then every     *)
(*                       validator of the chain runs (there is no bail()), *)
(*                       each failure appending its message.               *)
(*   jsonwebtoken        sign() stamps iat = floor(Date.now() / 1000) and  *)
(*                       exp = iat + 3600; verify() checks the HMAC and    *)
(*                       refuses when floor(Date.now() / 1000) >= exp.     *)
(* A request is answered in one step (Node's event loop; the in-memory     *)
(* store never waits for I/O); SpecConc splits POST /token after the       *)
(* limiter's store.increment and lets requests in flight interleave.       *)
(***************************************************************************)
EXTENDS Integers, Sequences, FiniteSets, TLC

VARIABLES
    now,      \* Date.now(), in ms
    store,    \* the limiter's store: key -> {totalHits, resetTime}
    issued,   \* every token createToken has returned, with the time of the call
    solo,     \* per client, the store of a limiter that sees this client alone
    seen,     \* per client, its current window and the requests it sent in it
    hist,     \* per client, when its requests of the last windowMs were admitted
    pending,  \* requests the limiter has counted and that are not answered yet
    last      \* the request being answered and the answer

vars == <<now, store, issued, solo, seen, hist, pending, last>>

----------------------------------------------------------------------------
(* Bounds of the model *)

\* number of client keys (req.ip values)
NClients == 2
\* longest raw username a request carries
MaxLen == 4
\* a key sends no further request once its entry counts MaxHits hits
MaxHits == 7
\* number of distinct tokens minted in one run
MaxIssued == 2
\* number of requests in flight at once
MaxPending == 2

Clients == 1 .. NClients

\* the requests of a single client
OneClient == {1}

----------------------------------------------------------------------------
(* Configuration *)

SECRET_KEY == "secret"

\* Date.now() is in milliseconds, JWT NumericDates are in seconds
MsPerSec == 1000

windowMs == 15 * 60 * 1000

max == 5

\* expiresIn: "1h", in seconds
expiresIn == 60 * 60

TooManyMessage == "Too many requests, please try again later."

RequiredMessage == "Username is required"

TooShortMessage == "Username must be at least 3 characters long"

NoTokenMessage == "Unauthorized: No token provided"

InvalidTokenMessage == "Invalid or expired token"

\* the token lifetime in ms
lifetimeMs == expiresIn * MsPerSec

\* Clock readings (ms) at which requests arrive when the lifetime of tokens
\* is looked at: the start and the end of the lifetime, on a second's
\* boundary and inside a second
TokenInstants == { 0, 999, lifetimeMs - 1, lifetimeMs, lifetimeMs + 999 }

\* Clock readings (ms) at which requests arrive when the rate window is
\* looked at: the start and the end of a window
WindowInstants == { 0, windowMs - 1, windowMs }

\* Math.floor(Date.now() / 1000)
Seconds(ms) == ms \div MsPerSec

----------------------------------------------------------------------------
(* Strings: sequences of characters *)

Chars == {" ", "a"}

Strings(n) == UNION { [1 .. k -> Chars] : k \in 0 .. n }

\* req.body of POST /token: username may be missing
Bodies ==
    { [defined |-> TRUE, username |-> s] : s \in Strings(MaxLen) }
      \cup { [defined |-> FALSE, username |-> <<>>] }

\* a few bodies: no username, an empty one, a short one, two valid ones
SampleBodies ==
    { [defined |-> FALSE, username |-> <<>>],
      [defined |-> TRUE, username |-> <<>>],
      [defined |-> TRUE, username |-> <<"a", "a">>],
      [defined |-> TRUE, username |-> <<"a", "a", "a">>],
      [defined |-> TRUE, username |-> <<" ", "a", " ", "a">>] }

\* the bodies the limiter is driven with: an invalid one and a valid one
RateBodies ==
    { [defined |-> TRUE, username |-> <<>>],
      [defined |-> TRUE, username |-> <<"a", "a", "a">>] }

\* express-validator's toString: undefined becomes ""
toString(body) == IF body.defined THEN body.username ELSE <<>>

\* validator.js trim: strips leading and trailing whitespace
trim(s) ==
    LET keep == { i \in 1 .. Len(s) : s[i] # " " }
        lo == CHOOSE i \in keep : \A j \in keep : i <= j
        hi == CHOOSE i \in keep : \A j \in keep : j <= i
    IN  IF keep = {} THEN <<>> ELSE SubSeq(s, lo, hi)

----------------------------------------------------------------------------
(* Rate limiter: rateLimit({windowMs, max, message}) with its in-memory store *)

\* (variant: one key for every client)
keyGeneratorGlobal(c) == 1

\* the key of a request is its client address (req.ip)
keyGenerator(c) == c

\* a fresh entry, or an expired entry after its reset
resetClient(t) == [totalHits |-> 0, resetTime |-> t + windowMs]

\* the entry of a key, created when the store has none
getClient(st, key, t) == IF key \in DOMAIN st THEN st[key] ELSE resetClient(t)

\* (variant: the entry is reset only after its reset time has passed)
incrementResetLate(st, key, t) ==
    LET client == getClient(st, key, t)
        live == IF client.resetTime < t THEN resetClient(t) ELSE client
    IN  [live EXCEPT !.totalHits = @ + 1]

\* (variant: a window that follows the previous one within windowMs starts
\* from the count of the previous one)
incrementCarry(st, key, t) ==
    LET client == getClient(st, key, t)
        carried == IF t - client.resetTime < windowMs
                   THEN [resetClient(t) EXCEPT !.totalHits = client.totalHits]
                   ELSE resetClient(t)
        live == IF client.resetTime <= t THEN carried ELSE client
    IN  [live EXCEPT !.totalHits = @ + 1]

\* (variant: a refused request is not counted)
incrementCapped(st, key, t) ==
    LET client == getClient(st, key, t)
        live == IF client.resetTime <= t THEN resetClient(t) ELSE client
    IN  [live EXCEPT !.totalHits = IF @ > max THEN @ ELSE @ + 1]

\* store.increment(key): reset the entry if its window is over, then count
\* the hit; the hit is counted whether or not the request will be admitted
increment(st, key, t) ==
    LET client == getClient(st, key, t)
        live == IF client.resetTime <= t THEN resetClient(t) ELSE client
    IN  [live EXCEPT !.totalHits = @ + 1]

\* (variant: the max-th request is refused already)
limitedFromMax(entry) == entry.totalHits >= max

\* the limiter refuses the request when the counted hits exceed max
limited(entry) == entry.totalHits > max

\* (variant: next() is called after the 429 as well)
limiterCallsNextAlways(entry) == TRUE

\* the limiter calls next() only for a request it has not answered itself
limiterCallsNext(entry) == ~limited(entry)

\* the store after the limiter has handled a request of key at time t
storeAfter(st, key, t) == (key :> increment(st, key, t)) @@ st

\* hits counted for a key in its current store entry (0 when it has none)
hitsOf(st, key) == IF key \in DOMAIN st THEN st[key].totalHits ELSE 0

\* the window of a client as its requests define it: a window starts with the
\* first request of the client, or with its first request once windowMs has
\* passed since the window started; n counts the client's requests in it
seenAfter(w, t) ==
    IF w.n = 0 \/ t - w.start >= windowMs
    THEN [start |-> t, n |-> 1]
    ELSE [w EXCEPT !.n = @ + 1]

\* the times, within the last windowMs before t (t included), at which
\* requests of a client were let through by the limiter
histAfter(h, t, admitted) ==
    LET recent == SelectSeq(h, LAMBDA x : t - x < windowMs)
    IN  IF admitted THEN Append(recent, t) ELSE recent

----------------------------------------------------------------------------
(* Tokens: jwt.sign / jwt.verify with HS256 *)

\* the MAC of a payload under a key: equal MACs mean equal key and payload
hmac(key, user, iat, exp) == [key |-> key, user |-> user, iat |-> iat, exp |-> exp]

\* jwt.sign({ user }, secret, { expiresIn }) at clock reading t (ms)
sign(user, secret, t) ==
    [user |-> user,
     iat |-> Seconds(t),
     exp |-> Seconds(t) + expiresIn,
     sig |-> hmac(secret, user, Seconds(t), Seconds(t) + expiresIn)]

createToken(user, t) == sign(user, SECRET_KEY, t)

NoToken == [user |-> <<>>, iat |-> 0, exp |-> 0, sig |-> hmac("", <<>>, 0, 0)]

----------------------------------------------------------------------------
(* Username validation: body("username").trim().notEmpty().isLength({min:3}) *)

\* (variant: the chain has no trim())
sanitizedRaw(body) == toString(body)

\* the sanitised value every validator of the chain sees, and that the
\* handler reads back from req.body.username
sanitized(body) == trim(toString(body))

notEmptyErrors(v) == IF v = <<>> THEN <<RequiredMessage>> ELSE <<>>

\* (variant: isLength({ min: 2 }))
isLengthErrorsMin2(v) == IF Len(v) < 2 THEN <<TooShortMessage>> ELSE <<>>

isLengthErrors(v) == IF Len(v) < 3 THEN <<TooShortMessage>> ELSE <<>>

\* validationResult(req).array(): the chain has no bail(), so each validator
\* runs and reports on its own
validationErrors(body) ==
    notEmptyErrors(sanitized(body)) \o isLengthErrors(sanitized(body))

----------------------------------------------------------------------------
(* Requests and responses *)

NoBody == [defined |-> FALSE, username |-> <<>>]

NoHeader == [present |-> FALSE, items |-> <<>>]

\* the request being answered and the answer; route "none" when the server
\* is idle
NoRequest ==
    [route |-> "none", client |-> 0, body |-> NoBody, header |-> NoHeader,
     at |-> 0, status |-> 0, message |-> "", errors |-> <<>>,
     hasToken |-> FALSE, access_token |-> NoToken,
     nth |-> 0, hitsBefore |-> 0, soloLimited |-> FALSE,
     extracted |-> <<>>, verifyCalled |-> FALSE, verifyError |-> "",
     hasUser |-> FALSE, user |-> <<>>, handlerRan |-> FALSE, hello |-> <<>>]

\* (variant: the handler goes on after it has answered 400)
handlerCreatesAfterErrors(entry, errs) == limiterCallsNext(entry)

\* the handler is reached when the limiter has called next(), and it returns
\* before createToken when validation has reported errors
handlerCreates(entry, errs) == limiterCallsNext(entry) /\ errs = <<>>

\* (variant: the validation chain and its 400 come before the limiter, which
\* counts the valid requests only)
PostTokenValidationFirst(c, body) ==
    LET key == keyGenerator(c)
        errs == validationErrors(body)
        entry == IF errs # <<>> THEN getClient(store, key, now)
                 ELSE increment(store, key, now)
        token == createToken(sanitized(body), now)
        creates == errs = <<>> /\ limiterCallsNext(entry)
        req == [NoRequest EXCEPT !.route = "POST /token", !.client = c,
                                 !.body = body, !.at = now,
                                 !.nth = seenAfter(seen[c], now).n,
                                 !.hitsBefore = hitsOf(store, key),
                                 !.hasToken = creates,
                                 !.access_token = IF creates THEN token ELSE NoToken]
    IN  /\ seen[c].n < MaxHits
        /\ store' = IF errs # <<>> THEN store ELSE storeAfter(store, key, now)
        /\ solo' = solo
        /\ seen' = [seen EXCEPT ![c] = seenAfter(seen[c], now)]
        /\ IF errs # <<>>
           THEN last' = [req EXCEPT !.status = 400, !.errors = errs]
           ELSE IF limited(entry)
           THEN last' = [req EXCEPT !.status = 429, !.message = TooManyMessage]
           ELSE last' = [req EXCEPT !.status = 200]
        /\ IF creates
           THEN /\ \/ [tok |-> token, at |-> now] \in issued
                   \/ Cardinality(issued) < MaxIssued
                /\ issued' = issued \cup {[tok |-> token, at |-> now]}
           ELSE UNCHANGED issued
        /\ UNCHANGED <<now, pending>>

\* POST /token: limiter, validation chain, handler
PostToken(c, body) ==
    LET key == keyGenerator(c)
        entry == increment(store, key, now)
        soloEntry == increment(solo[c], key, now)
        errs == validationErrors(body)
        token == createToken(sanitized(body), now)
        creates == handlerCreates(entry, errs)
        req == [NoRequest EXCEPT !.route = "POST /token", !.client = c,
                                 !.body = body, !.at = now,
                                 !.nth = seenAfter(seen[c], now).n,
                                 !.hitsBefore = hitsOf(store, key),
                                 !.soloLimited = limited(soloEntry),
                                 !.hasToken = creates,
                                 !.access_token = IF creates THEN token ELSE NoToken]
    IN  /\ hitsOf(store, key) < MaxHits
        /\ store' = storeAfter(store, key, now)
        /\ solo' = [solo EXCEPT ![c] = storeAfter(solo[c], key, now)]
        /\ seen' = [seen EXCEPT ![c] = seenAfter(seen[c], now)]
        /\ IF limited(entry)
           THEN last' = [req EXCEPT !.status = 429, !.message = TooManyMessage]
           ELSE IF errs # <<>>
           THEN last' = [req EXCEPT !.status = 400, !.errors = errs]
           ELSE last' = [req EXCEPT !.status = 200]
        /\ IF creates
           THEN /\ \/ [tok |-> token, at |-> now] \in issued
                   \/ Cardinality(issued) < MaxIssued
                /\ issued' = issued \cup {[tok |-> token, at |-> now]}
           ELSE UNCHANGED issued
        /\ UNCHANGED <<now, pending>>

----------------------------------------------------------------------------
(* Authorization headers: sequences of words, spaces and tokens *)

Word(w) == [k |-> "word", w |-> w, tok |-> NoToken]

Space == [k |-> "sp", w |-> " ", tok |-> NoToken]

Jwt(t) == [k |-> "jwt", w |-> "", tok |-> t]

Header(items) == [present |-> TRUE, items |-> items]

\* the header "Bearer <token>"
Bearer(t) == Header(<<Word("Bearer"), Space, Jwt(t)>>)

\* (variant: authHeader.startsWith("Bearer"))
startsWithBearerWord(items) ==
    /\ Len(items) >= 1
    /\ items[1] = Word("Bearer")

\* authHeader.startsWith("Bearer ")
startsWithBearer(items) ==
    /\ Len(items) >= 2
    /\ items[1] = Word("Bearer")
    /\ items[2] = Space

\* authHeader.split(" ")[1]: what stands between the first space and the
\* next one (or the end of the header)
splitSecond(items) ==
    LET spaces == { i \in 1 .. Len(items) : items[i].k = "sp" }
        first == CHOOSE i \in spaces : \A j \in spaces : i <= j
        later == { i \in spaces : i > first }
        next == IF later = {} THEN Len(items) + 1
                ELSE CHOOSE i \in later : \A j \in later : i <= j
    IN  IF spaces = {} THEN <<>> ELSE SubSeq(items, first + 1, next - 1)

\* (variant: the payload is decoded and its expiry checked, the signature
\* is not)
verifyErrorUnsigned(token, secret, t) ==
    IF token = <<>> THEN "jwt must be provided"
    ELSE IF token[1].k # "jwt" THEN "jwt malformed"
    ELSE IF Len(token) > 1 THEN "invalid signature"
    ELSE IF Seconds(t) >= token[1].tok.exp THEN "jwt expired"
    ELSE ""

\* (variant: a token is still taken in the second it expires)
verifyErrorLate(token, secret, t) ==
    IF token = <<>> THEN "jwt must be provided"
    ELSE IF token[1].k # "jwt" THEN "jwt malformed"
    ELSE IF Len(token) > 1 THEN "invalid signature"
    ELSE IF token[1].tok.sig
              # hmac(secret, token[1].tok.user, token[1].tok.iat, token[1].tok.exp)
         THEN "invalid signature"
    ELSE IF Seconds(t) > token[1].tok.exp THEN "jwt expired"
    ELSE ""

\* jwt.verify(token, secret, callback): the error it reports ("" for none);
\* the signature is checked before the expiry
verifyError(token, secret, t) ==
    IF token = <<>> THEN "jwt must be provided"
    ELSE IF token[1].k # "jwt" THEN "jwt malformed"
    ELSE IF Len(token) > 1 THEN "invalid signature"
    ELSE IF token[1].tok.sig
              # hmac(secret, token[1].tok.user, token[1].tok.iat, token[1].tok.exp)
         THEN "invalid signature"
    ELSE IF Seconds(t) >= token[1].tok.exp THEN "jwt expired"
    ELSE ""

\* decoded.user of a token that verified
decodedUser(token) == token[1].tok.user

\* (variant: the answer carries err.message)
failureMessageOfError(err) == err

\* the message authenticate answers a failed verification with
failureMessage(err) == InvalidTokenMessage

\* (variant: the limiter is mounted on GET /secure-data as well)
GetSecureDataLimited(authHeader) ==
    LET req == [NoRequest EXCEPT !.route = "GET /secure-data",
                                 !.header = authHeader, !.at = now]
        key == keyGenerator(1)
        entry == increment(store, key, now)
        token == splitSecond(authHeader.items)
        err == verifyError(token, SECRET_KEY, now)
    IN  /\ store' = storeAfter(store, key, now)
        /\ IF limited(entry)
           THEN last' = [req EXCEPT !.status = 429, !.message = TooManyMessage]
           ELSE IF \/ ~authHeader.present
                   \/ authHeader.items = <<>>
                   \/ ~startsWithBearer(authHeader.items)
           THEN last' = [req EXCEPT !.status = 401, !.message = NoTokenMessage]
           ELSE IF err # ""
           THEN last' = [req EXCEPT !.status = 401, !.message = failureMessage(err),
                                    !.extracted = token, !.verifyCalled = TRUE,
                                    !.verifyError = err]
           ELSE last' = [req EXCEPT !.status = 200, !.message = "Hello, ${req.user}!",
                                    !.extracted = token, !.verifyCalled = TRUE,
                                    !.hasUser = TRUE, !.user = decodedUser(token),
                                    !.handlerRan = TRUE, !.hello = decodedUser(token)]
        /\ UNCHANGED <<now, solo, seen, pending, issued>>

\* authenticate, then the handler of GET /secure-data
GetSecureData(authHeader) ==
    LET req == [NoRequest EXCEPT !.route = "GET /secure-data",
                                 !.header = authHeader, !.at = now]
        token == splitSecond(authHeader.items)
        err == verifyError(token, SECRET_KEY, now)
    IN  /\ IF \/ ~authHeader.present
              \/ authHeader.items = <<>>
              \/ ~startsWithBearer(authHeader.items)
           THEN last' = [req EXCEPT !.status = 401, !.message = NoTokenMessage]
           ELSE IF err # ""
           THEN last' = [req EXCEPT !.status = 401, !.message = failureMessage(err),
                                    !.extracted = token, !.verifyCalled = TRUE,
                                    !.verifyError = err]
           ELSE last' = [req EXCEPT !.status = 200, !.message = "Hello, ${req.user}!",
                                    !.extracted = token, !.verifyCalled = TRUE,
                                    !.hasUser = TRUE, !.user = decodedUser(token),
                                    !.handlerRan = TRUE, !.hello = decodedUser(token)]
        /\ UNCHANGED <<now, store, solo, seen, pending, issued>>

----------------------------------------------------------------------------
(* What a client can send *)

IssuedTokens == { i.tok : i \in issued }

\* a client holds the tokens the server issued, copies of them with a changed
\* payload (the signature cannot be recomputed without the secret), and
\* tokens it signed itself with a key of its own
Tampered ==
    { [t EXCEPT !.user = t.user \o <<"a">>] : t \in IssuedTokens }
      \cup { [t EXCEPT !.exp = t.exp + expiresIn] : t \in IssuedTokens }

Forged == { sign(<<"a", "a", "a">>, "guess", now), sign(<<>>, "guess", now) }

Presentable == IssuedTokens \cup Tampered \cup Forged

Headers ==
    { NoHeader, Header(<<>>), Header(<<Word("Bearer")>>),
      Header(<<Word("Bearer"), Space>>),
      Header(<<Word("Bearer"), Space, Word("x")>>) }
      \cup { Bearer(t) : t \in Presentable }
      \cup { Header(<<Word("Basic"), Space, Jwt(t)>>) : t \in IssuedTokens }
      \cup { Header(<<Word("bearer"), Space, Jwt(t)>>) : t \in IssuedTokens }
      \cup { Header(<<Word("Bearer"), Space, Jwt(t), Word("x")>>) : t \in IssuedTokens }
      \cup { Header(<<Word("Bearer"), Space, Jwt(t), Space, Word("x")>>) :
                t \in IssuedTokens }
      \cup { Header(<<Word("Bearer"), Space, Space, Jwt(t)>>) : t \in IssuedTokens }

----------------------------------------------------------------------------
(* The system.  The server answers one request at a time. *)

Init ==
    /\ now = 0
    /\ store = << >>
    /\ solo = [c \in Clients |-> << >>]
    /\ seen = [c \in Clients |-> [start |-> 0, n |-> 0]]
    /\ hist = [c \in Clients |-> << >>]
    /\ pending = {}
    /\ issued = {}
    /\ last = NoRequest

Idle == last.route = "none"

\* the answer has been sent: the server waits for the next request
Done ==
    /\ ~Idle
    /\ last' = NoRequest
    /\ UNCHANGED <<now, store, solo, seen, hist, pending, issued>>

\* time passes between two requests, up to one of the readings of T
Tick(T) ==
    /\ Idle
    /\ \E t \in T : t > now /\ now' = t
    /\ UNCHANGED <<store, solo, seen, hist, pending, issued, last>>

Post(C, B) ==
    /\ Idle
    /\ \E c \in C, body \in B : PostToken(c, body)
    /\ UNCHANGED hist

\* POST /token, with the admissions of the last windowMs kept on record
PostRecorded(C, B) ==
    /\ Idle
    /\ \E c \in C, body \in B :
          /\ PostToken(c, body)
          /\ hist' = [hist EXCEPT
                        ![c] = histAfter(hist[c], now, last'.status # 429)]

Get == Idle /\ (\E h \in Headers : GetSecureData(h)) /\ UNCHANGED hist

\* what the limiter hands on for a request it has counted
counted(c, body, st, priv, w, t) ==
    [client |-> c, body |-> body, at |-> t,
     entry |-> increment(st, keyGenerator(c), t),
     hitsBefore |-> hitsOf(st, keyGenerator(c)),
     soloLimited |-> limited(increment(priv, keyGenerator(c), t)),
     nth |-> seenAfter(w, t).n]

\* (variant: the count a request writes is lost while another request of
\* its key is in flight)
ArriveRacy(C, B) ==
    /\ Idle
    /\ Cardinality(pending) < MaxPending
    /\ \E c \in C, body \in B :
          /\ hitsOf(store, keyGenerator(c)) < MaxHits
          /\ store' = IF \E p \in pending : p.client = c
                      THEN store
                      ELSE storeAfter(store, keyGenerator(c), now)
          /\ solo' = [solo EXCEPT ![c] = storeAfter(solo[c], keyGenerator(c), now)]
          /\ seen' = [seen EXCEPT ![c] = seenAfter(seen[c], now)]
          /\ pending' = pending \cup {counted(c, body, store, solo[c], seen[c], now)}
    /\ UNCHANGED <<now, issued, hist, last>>

\* a request to POST /token reaches the limiter while others are in flight:
\* store.increment reads and writes the entry of its key in one synchronous
\* step; the rest of the request (the limiter's answer or next(), validation,
\* handler) runs in later turns of the event loop
Arrive(C, B) ==
    /\ Idle
    /\ Cardinality(pending) < MaxPending
    /\ \E c \in C, body \in B :
          /\ hitsOf(store, keyGenerator(c)) < MaxHits
          /\ store' = storeAfter(store, keyGenerator(c), now)
          /\ solo' = [solo EXCEPT ![c] = storeAfter(solo[c], keyGenerator(c), now)]
          /\ seen' = [seen EXCEPT ![c] = seenAfter(seen[c], now)]
          /\ pending' = pending \cup {counted(c, body, store, solo[c], seen[c], now)}
    /\ UNCHANGED <<now, issued, hist, last>>

\* a counted request runs to its answer: 429 from the limiter, or the
\* validation chain and the handler
Decide ==
    /\ Idle
    /\ \E p \in pending :
          LET errs == validationErrors(p.body)
              token == createToken(sanitized(p.body), now)
              creates == handlerCreates(p.entry, errs)
              req == [NoRequest EXCEPT !.route = "POST /token",
                                       !.client = p.client,
                                       !.body = p.body, !.at = p.at,
                                       !.nth = p.nth,
                                       !.hitsBefore = p.hitsBefore,
                                       !.soloLimited = p.soloLimited,
                                       !.hasToken = creates,
                                       !.access_token =
                                           IF creates THEN token ELSE NoToken]
          IN  /\ pending' = pending \ {p}
              /\ IF limited(p.entry)
                 THEN last' = [req EXCEPT !.status = 429,
                                          !.message = TooManyMessage]
                 ELSE IF errs # <<>>
                 THEN last' = [req EXCEPT !.status = 400, !.errors = errs]
                 ELSE last' = [req EXCEPT !.status = 200]
              /\ IF creates
                 THEN /\ \/ [tok |-> token, at |-> now] \in issued
                         \/ Cardinality(issued) < MaxIssued
                      /\ issued' = issued \cup {[tok |-> token, at |-> now]}
                 ELSE UNCHANGED issued
    /\ UNCHANGED <<now, store, solo, seen, hist>>

\* Tokens over their lifetime: one client, a few usernames, every header a
\* client can build, the clock running past the end of the lifetime.
Next == Tick(TokenInstants) \/ Post(OneClient, SampleBodies) \/ Get \/ Done

Spec == Init /\ [][Next]_vars

\* The rate limiter over its windows: every client, a valid and an invalid
\* username, the clock running past the end of the window.
NextRate == Tick(WindowInstants) \/ Post(Clients, RateBodies) \/ Done

SpecRate == Init /\ [][NextRate]_vars

\* Issuance and access at one clock reading: one client, every username up
\* to MaxLen and every header a client can build.
NextInput == Post(OneClient, Bodies) \/ Get \/ Done

SpecInput == Init /\ [][NextInput]_vars

\* Clock readings (ms) for the window the README documents (10 minutes)
\* against the window of the code
ReadmeInstants == { 0, 10 * 60 * 1000, windowMs }

\* The rate limiter of one client, looked at after 10 and after 15 minutes.
NextReadme == Tick(ReadmeInstants) \/ Post(OneClient, RateBodies) \/ Done

SpecReadme == Init /\ [][NextReadme]_vars

\* Bursts of one client around the end of its window.
NextBurst == Tick(WindowInstants) \/ PostRecorded(OneClient, RateBodies) \/ Done

SpecBurst == Init /\ [][NextBurst]_vars

\* Requests of one client in flight at once: up to MaxPending requests have
\* been counted by the limiter and wait for the rest of their handling.
NextConc ==
    Tick(WindowInstants) \/ Arrive(OneClient, RateBodies) \/ Decide \/ Done

SpecConc == Init /\ [][NextConc]_vars

----------------------------------------------------------------------------
(* Properties *)

IsPost == last.route = "POST /token"

IsGet == last.route = "GET /secure-data"

\* the length of s without its leading and trailing spaces
TrimmedLen(s) ==
    LET keep == { i \in 1 .. Len(s) : s[i] # " " }
    IN  IF keep = {} THEN 0
        ELSE (CHOOSE i \in keep : \A j \in keep : j <= i)
               - (CHOOSE i \in keep : \A j \in keep : i <= j) + 1

\* u neither starts nor ends with a space
NoOuterSpace(u) == u = <<>> \/ (u[1] # " " /\ u[Len(u)] # " ")

\* u is raw without its leading and trailing spaces
IsTrimOf(u, raw) ==
    /\ NoOuterSpace(u)
    /\ \E a \in 0 .. Len(raw) :
          /\ a + Len(u) <= Len(raw)
          /\ \A i \in 1 .. Len(raw) :
                IF i > a /\ i <= a + Len(u) THEN raw[i] = u[i - a] ELSE raw[i] = " "

\* C1: the handler of GET /secure-data runs only for a request whose token
\* authenticate verified without error, and then req.user is a non-empty
\* subject carried by a token that POST /token issued earlier.
C1_HandlerOnlyAfterVerification ==
    last.handlerRan =>
        /\ IsGet
        /\ last.status = 200
        /\ last.verifyCalled
        /\ last.verifyError = ""
        /\ last.hasUser
        /\ last.user # <<>>
        /\ \E i \in issued :
              /\ last.extracted = <<Jwt(i.tok)>>
              /\ i.tok.user = last.user
              /\ i.at <= last.at

\* the protected handler has run for a token issued earlier
C1_Witness ==
    /\ last.handlerRan
    /\ \E i \in issued : last.header = Bearer(i.tok) /\ i.at < last.at

\* C2: in each window of a client the first 5 requests to POST /token pass
\* the limiter and the 6th and every later one is answered 429 with the
\* message "Too many requests, please try again later."
C2_FiveAdmittedThenRejected ==
    IsPost =>
        /\ last.nth >= 1
        /\ last.nth <= 5 => last.status \in {200, 400}
        /\ last.nth > 5 =>
              /\ last.status = 429
              /\ last.message = "Too many requests, please try again later."

\* the 7th request of a window, refused
C2_Witness == IsPost /\ last.nth = 7 /\ last.status = 429

\* C3 as stated: a token issued at time t is accepted at every t' with
\* t <= t' < t + 1 hour and rejected at every t' >= t + 1 hour.
C3_ValidForWholeHour ==
    \A i \in issued :
        (IsGet /\ last.header = Bearer(i.tok)) =>
            /\ (i.at <= last.at /\ last.at < i.at + 3600000) => last.status = 200
            /\ last.at >= i.at + 3600000 => last.status = 401

\* C3, amended: a token issued at time t (ms) is accepted at every later
\* time t' with floor(t'/1000) < floor(t/1000) + 3600 and rejected, with no
\* identity attached, at every t' with floor(t'/1000) >= floor(t/1000) + 3600;
\* so it is never accepted at t' >= t + 1 hour.
C3_ValidUntilExpSecond ==
    \A i \in issued :
        (IsGet /\ last.header = Bearer(i.tok) /\ i.at <= last.at) =>
            /\ (last.at \div 1000 < i.at \div 1000 + 3600) =>
                  /\ last.status = 200
                  /\ last.user = i.tok.user
            /\ (last.at \div 1000 >= i.at \div 1000 + 3600) =>
                  /\ last.status = 401
                  /\ last.message = "Invalid or expired token"
                  /\ ~last.hasUser
                  /\ ~last.handlerRan
            /\ last.at >= i.at + 3600000 => last.status = 401

\* a token issued inside a second is refused less than an hour later
C3_Witness ==
    \E i \in issued :
        /\ IsGet
        /\ last.header = Bearer(i.tok)
        /\ i.at = 999
        /\ last.at = 3600000
        /\ last.status = 401

\* C4: round trip.  A successful POST /token returns a token whose subject
\* is the username without its leading and trailing spaces, of length >= 3;
\* that token presented at once as "Bearer <token>" is verified and the
\* answer greets exactly that subject.
C4_RoundTrip ==
    /\ (IsPost /\ last.status = 200) =>
          /\ last.hasToken
          /\ last.body.defined
          /\ IsTrimOf(last.access_token.user, last.body.username)
          /\ Len(last.access_token.user) >= 3
          /\ [tok |-> last.access_token, at |-> last.at] \in issued
    /\ \A i \in issued :
          (IsGet /\ last.header = Bearer(i.tok) /\ last.at = i.at) =>
              /\ last.status = 200
              /\ last.message = "Hello, ${req.user}!"
              /\ last.hello = i.tok.user
              /\ NoOuterSpace(last.hello)
              /\ Len(last.hello) >= 3

\* a token whose subject holds a space inside comes back as that subject
C4_Witness ==
    \E i \in issued :
        /\ IsGet
        /\ last.header = Bearer(i.tok)
        /\ last.at = i.at
        /\ last.hello = <<"a", " ", "a">>

\* C5: a request the limiter answers with 429 creates no token, and a token
\* is created only for a request that was admitted (one of the first 5 of
\* its window) and answered 200.
C5_NoTokenWhenLimited ==
    [][ /\ (last'.route = "POST /token" /\ last'.status = 429) =>
              /\ ~last'.hasToken
              /\ last'.access_token = NoToken
              /\ issued' = issued
        /\ last'.hasToken =>
              /\ last'.status = 200
              /\ last'.nth <= 5 ]_vars

\* a request with a valid username is refused by the limiter
C5_Witness ==
    /\ IsPost
    /\ last.status = 429
    /\ last.body.username = <<"a", "a", "a">>

\* C6: an admitted POST /token is answered 400, and creates no token, exactly
\* when the username without its outer spaces is shorter than 3 (a missing
\* username counts as empty); otherwise it is answered 200 with a token.
C6_RejectedIffShort ==
    (IsPost /\ last.status # 429) =>
        /\ (TrimmedLen(last.body.username) < 3) <=> (last.status = 400)
        /\ last.status = 400 =>
              /\ ~last.hasToken
              /\ last.errors # <<>>
              /\ [tok |-> last.access_token, at |-> last.at] \notin issued
        /\ (TrimmedLen(last.body.username) >= 3) =>
              /\ last.status = 200
              /\ last.hasToken

\* a username of two letters behind a space is refused
C6_Witness ==
    /\ IsPost
    /\ last.status = 400
    /\ last.body.username = <<" ", "a", "a">>

\* C7 as stated: a refused username carries exactly one reason, "required"
\* when it is empty after trimming and "tooShort" when it has 1 or 2
\* characters.
C7_OneReasonPerRejection ==
    (IsPost /\ last.status = 400) =>
        /\ Len(last.errors) = 1
        /\ TrimmedLen(last.body.username) = 0 =>
              last.errors = <<"Username is required">>
        /\ TrimmedLen(last.body.username) \in {1, 2} =>
              last.errors = <<"Username must be at least 3 characters long">>

\* C8: a GET /secure-data whose Authorization header is absent or does not
\* start with "Bearer " is answered 401 "Unauthorized: No token provided";
\* verification is not called, no identity is attached, the handler does
\* not run.
C8_NoBearerNoVerification ==
    (/\ IsGet
     /\ \/ ~last.header.present
        \/ Len(last.header.items) < 2
        \/ last.header.items[1] # Word("Bearer")
        \/ last.header.items[2] # Space) =>
        /\ last.status = 401
        /\ last.message = "Unauthorized: No token provided"
        /\ ~last.verifyCalled
        /\ ~last.hasUser
        /\ ~last.handlerRan

\* a valid token sent under another scheme is not looked at
C8_Witness ==
    \E i \in issued :
        /\ IsGet
        /\ last.header = Header(<<Word("Basic"), Space, Jwt(i.tok)>>)
        /\ last.at < i.at + 3600000

\* C9: whatever makes verification fail, the answer is the same: 401 with
\* the message "Invalid or expired token", no identity attached, the handler
\* not run, nothing else in the response.
C9_OneAnswerForEveryFailure ==
    (IsGet /\ last.verifyCalled /\ last.verifyError # "") =>
        /\ last.verifyError \in
              {"jwt must be provided", "jwt malformed", "invalid signature", "jwt expired"}
        /\ last.status = 401
        /\ last.message = "Invalid or expired token"
        /\ last.errors = <<>>
        /\ ~last.hasToken
        /\ ~last.hasUser
        /\ last.user = <<>>
        /\ last.hello = <<>>
        /\ ~last.handlerRan

\* an expired token is refused
C9_Witness == IsGet /\ last.verifyError = "jwt expired"

\* C10: the limiter's entry of a client is the one it would have if no other
\* client had sent anything, and each of its requests is admitted or refused
\* as it would be then.
C10_ClientsIndependent ==
    /\ \A c \in Clients :
          /\ (c \in DOMAIN store) <=> (c \in DOMAIN solo[c])
          /\ DOMAIN solo[c] \subseteq {c}
          /\ c \in DOMAIN store => store[c] = solo[c][c]
    /\ DOMAIN store \subseteq Clients
    /\ IsPost => ((last.status = 429) <=> last.soloLimited)

\* one client is admitted while another has used up its window
C10_Witness ==
    /\ IsPost
    /\ last.client = 2
    /\ last.status = 200
    /\ 1 \in DOMAIN store
    /\ store[1].totalHits > 5

\* C11: once windowMs (15 minutes) has passed since a client's window
\* started, the next POST /token of that client is admitted and starts a new
\* window whose count is 1, whatever the count of the old window was.
C11_ResetAfterWindow ==
    [][ \A c \in Clients :
          (/\ last'.route = "POST /token"
           /\ last'.client = c
           /\ seen[c].n > 0
           /\ now - seen[c].start >= 900000) =>
              /\ last'.status \in {200, 400}
              /\ last'.nth = 1
              /\ c \in DOMAIN store'
              /\ store'[c].totalHits = 1
              /\ store'[c].resetTime = now + 900000 ]_vars

\* a client refused in its old window is admitted when the window is over
C11_Witness ==
    /\ IsPost
    /\ last.hitsBefore > 5
    /\ last.nth = 1
    /\ last.status = 200
    /\ last.at = 900000

\* what the Authorization header holds after its first two items
AfterPrefix(header) == SubSeq(header.items, 3, Len(header.items))

\* the header starts with "Bearer "
HasBearerPrefix(header) ==
    /\ header.present
    /\ Len(header.items) >= 2
    /\ header.items[1] = Word("Bearer")
    /\ header.items[2] = Space

\* C12 as stated: a GET /secure-data whose header is "Bearer " followed by
\* anything that is not, position for position, a token POST /token issued
\* is answered 401 "Invalid or expired token" and attaches no identity.
C12_ModifiedTokenRefused ==
    (/\ IsGet
     /\ HasBearerPrefix(last.header)
     /\ \A t \in IssuedTokens : AfterPrefix(last.header) # <<Jwt(t)>>) =>
        /\ last.status = 401
        /\ last.message = "Invalid or expired token"
        /\ ~last.hasUser
        /\ ~last.handlerRan

\* C15 as stated: the string authenticate hands to jwt.verify is everything
\* that follows "Bearer " in the header.
C15_WholeRemainderVerified ==
    (IsGet /\ last.verifyCalled) =>
        /\ HasBearerPrefix(last.header)
        /\ last.extracted = AfterPrefix(last.header)

\* C13: every request is answered exactly once, with one of the answers of
\* its route (POST /token: 200 with a token, 400 with the validation errors,
\* 429 with the limiter's message; GET /secure-data: 200 with the greeting or
\* 401 with a message), and a failure leaves nothing behind but the rate
\* counters: it changes neither the issued tokens nor the clock, the server
\* takes the next request, and the answer to a POST /token follows from the
\* request and its ordinal in the window alone.
C13_OneResponseAndServiceGoesOn ==
    /\ [](IsPost =>
            /\ last.status = (IF last.nth > 5 THEN 429
                              ELSE IF Len(sanitized(last.body)) < 3 THEN 400
                              ELSE 200)
            /\ (last.status = 200) = last.hasToken
            /\ (last.status = 400) = (last.errors # <<>>)
            /\ (last.status = 429) = (last.message # "")
            /\ ~last.verifyCalled /\ ~last.handlerRan)
    /\ [](IsGet =>
            /\ last.status \in {200, 401}
            /\ (last.status = 200) = last.handlerRan
            /\ (last.status = 401) =
                  (last.message \in {"Unauthorized: No token provided",
                                     "Invalid or expired token"})
            /\ ~last.hasToken /\ last.errors = <<>>)
    /\ [][ /\ last'.status \in {400, 401, 429} =>
                 (issued' = issued /\ now' = now)
           /\ (last.status \in {400, 401, 429} /\ last'.route = "none") =>
                 (ENABLED Get)' ]_vars

C13_Witness ==
    /\ IsPost /\ last.status = 200 /\ last.hasToken
    /\ last.hitsBefore > 5 /\ last.nth = 1 /\ last.at > 900000

\* C14 as stated: the limit is 5 requests per 10 minutes, so a request sent
\* 10 minutes (600000 ms) or more after the client's window started is not
\* refused by the limiter.
C14_AdmittedAfterTenMinutes ==
    (/\ IsPost
     /\ last.at - seen[last.client].start >= 600000) => last.status # 429

\* C16 as stated: the stored count of a key never exceeds the maximum (5); a
\* refused request leaves the counter as it was.
C16_CountCapped ==
    /\ \A k \in DOMAIN store : store[k].totalHits <= 5
    /\ (IsPost /\ last.status = 429) =>
            store[last.client].totalHits = last.hitsBefore

\* C16, amended: the stored count of a key is the number of requests the key
\* has sent in its current window, the refused ones included, so it does pass
\* 5; a request is refused exactly when the count that includes it is above
\* 5 (at most 5 are admitted per window); and a key's windows do not overlap:
\* its entry either counts one more hit in the same window or starts a new
\* window, with count 1, no earlier than the old window ended.
C16_CountsEveryRequest ==
    /\ [](\A k \in DOMAIN store :
            /\ store[k].totalHits = seen[k].n
            /\ store[k].resetTime = seen[k].start + 900000)
    /\ [](IsPost =>
            /\ (last.status = 429) = (store[last.client].totalHits > 5)
            /\ (last.status \in {200, 400}) = (last.nth <= 5))
    /\ [][ \A k \in DOMAIN store :
             /\ k \in DOMAIN store'
             /\ \/ store'[k] = store[k]
                \/ /\ store'[k].resetTime = store[k].resetTime
                   /\ store'[k].totalHits = store[k].totalHits + 1
                   /\ now < store[k].resetTime
                \/ /\ store'[k].resetTime - 900000 >= store[k].resetTime
                   /\ store'[k].totalHits = 1 ]_vars

C16_Witness ==
    /\ IsPost /\ last.status = 429
    /\ last.hitsBefore = 6 /\ store[last.client].totalHits = 7

\* C17: with several POST /token requests of one key in flight, in every
\* interleaving each request reads and increments the count in one step: no
\* two requests in flight in the same window of a key have observed the same
\* count, the count a request observed is its ordinal among the requests of
\* the window, and a request is let through exactly when that ordinal is at
\* most 5, so at most 5 requests of a window are admitted.
C17_AdmissionRaceFree ==
    /\ \A p, q \in pending :
          (/\ p # q
           /\ p.client = q.client
           /\ p.entry.resetTime = q.entry.resetTime) =>
              p.entry.totalHits # q.entry.totalHits
    /\ \A p \in pending : p.entry.totalHits = p.nth
    /\ IsPost => (last.status \in {200, 400}) = (last.nth <= 5)
    /\ IsPost => (last.status = 429) = (last.nth > 5)

C17_Witness ==
    /\ IsPost /\ last.status = 429 /\ last.nth = 6
    /\ \E p \in pending :
          /\ p.client = last.client
          /\ p.at = last.at
          /\ p.nth = 5

\* the number of requests of the client of the request being answered that
\* were admitted at the very instant of that request
AdmittedAtOnce ==
    Cardinality({ i \in 1 .. Len(hist[last.client]) :
                    hist[last.client][i] = last.at })

\* C18 as stated: of a burst of 5 requests just before the end of the
\* client's window and 5 just after it, none is refused.  The window has
\* been opened by one earlier request; so whenever at most one request of
\* the window came before those of the current instant, a request is refused
\* only after 5 requests of that instant have been admitted.
C18_BurstOfTenAdmitted ==
    (/\ IsPost
     /\ last.status = 429
     /\ last.nth - 1 - AdmittedAtOnce <= 1) => AdmittedAtOnce >= 5

\* C18, amended: the window is fixed and opens with the client's first
\* request.  The first 5 requests of a window are admitted whatever was
\* admitted just before the window, and only they are; the 5 admitted
\* requests of a window include the one that opened it, so within a span
\* shorter than windowMs at most 9 requests of a client are admitted (4 at
\* the end of a window and 5 at the start of the next), never 10.
C18_BurstOfNineAdmitted ==
    /\ \A c \in Clients :
          /\ Len(hist[c]) <= 9
          /\ \A i, j \in 1 .. Len(hist[c]) : hist[c][j] - hist[c][i] < 900000
    /\ IsPost => (last.nth <= 5) = (last.status # 429)
    /\ (IsPost /\ last.nth <= 5) =>
            hist[last.client][Len(hist[last.client])] = last.at

C18_Witness ==
    /\ IsPost /\ last.status # 429 /\ last.at = 900000 /\ last.nth = 5
    /\ Len(hist[last.client]) = 9
    /\ hist[last.client][1] = 899999

\* C19: the limiter runs before validation.  Every POST /token counts toward
\* the window of its client, valid username or not: the stored count is the
\* ordinal of the request in the window.  A request beyond the 5th of its
\* window is answered 429, without validation errors, whether its username
\* is valid or not; 400 is an answer to requests within the budget only.
C19_LimiterBeforeValidation ==
    IsPost =>
        /\ hitsOf(store, keyGenerator(last.client)) = last.nth
        /\ last.nth > 5 =>
              /\ last.status = 429
              /\ last.errors = <<>>
              /\ last.message = "Too many requests, please try again later."
        /\ last.status = 400 =>
              /\ last.nth <= 5
              /\ Len(sanitized(last.body)) < 3

\* five requests with an invalid username have used up the budget (no token
\* was ever issued), and the valid request that follows is refused
C19_Witness ==
    /\ IsPost /\ last.status = 429 /\ last.nth = 6 /\ last.at = 0
    /\ Len(sanitized(last.body)) >= 3
    /\ issued = {}

\* C20: GET /secure-data neither reads nor changes the limiter's entries, and
\* verification leaves nothing behind: a step that answers a GET changes
\* only the exchange being answered, and its answer follows from the header,
\* the secret and the clock.  So a token POST /token has issued and that has
\* not expired is accepted, with its subject, whatever the count of the
\* client's window and whatever tokens were issued after it.
C20_AccessIndependentOfRateLimit ==
    /\ [][ last'.route = "GET /secure-data" =>
             /\ store' = store /\ solo' = solo /\ seen' = seen
             /\ issued' = issued /\ now' = now
             /\ hist' = hist /\ pending' = pending ]_vars
    /\ [](IsGet =>
            (last.status = 200) =
               (/\ startsWithBearer(last.header.items)
                /\ verifyError(splitSecond(last.header.items),
                               "secret", last.at) = ""))
    /\ [](\A t \in IssuedTokens :
            (/\ IsGet
             /\ last.header = Bearer(t)
             /\ last.at \div 1000 < t.exp) =>
                 /\ last.status = 200
                 /\ last.user = t.user)

\* the client is refused on /token (its window counts more than 5 requests
\* and has not ended), two tokens have been issued, and one of them is
\* accepted
C20_Witness ==
    /\ IsGet /\ last.status = 200
    /\ 1 \in DOMAIN store
    /\ store[1].totalHits > 5 /\ now < store[1].resetTime
    /\ \E t, u \in IssuedTokens : t # u /\ last.header = Bearer(t)

====
